---- MODULE Spec2Model ----
(***************************************************************************)
(* rapid-typist: the voice-activity Segmenter (audio/vad.py) and the       *)
(* four-stage Pipeline (cli.py) with its capture source (audio/capture.py) *)
(* and status display (tui.py).                                            *)
(*                                                                         *)
(* A frame is the record [id, kind]: id is its position in the order the   *)
(* device produced it, kind is what the classifier does with its samples   *)
(* ("speech", "silence", or "fault" when webrtcvad raises on it).  A       *)
(* segment (np.concatenate of frames) is the sequence of its frames.       *)
(***************************************************************************)
EXTENDS Integers, Sequences, FiniteSets, TLC

\* ------------------------------------------------------------ bounds
\* Longest frame sequence fed to a stand-alone Segmenter.
MaxInput == 7

\* Configuration values (config.py VadConfig) the stand-alone Segmenter is built from.
FrameMsChoices == {10, 20, 30}
HangoverMsChoices == {0, 30, 60}
PrerollMsChoices == {0, 30, 60}
FrameKinds == {"speech", "silence", "fault"}

\* Pipeline: start() calls per behaviour, frames the device delivers per
\* behaviour, and the configuration the Pipeline is built with.
MaxRuns == 2
MaxStartAgain == 1
MaxFrames == 3
\* Frames the device delivers in a behaviour of the single uninterrupted run.
MaxRunFrames == 6
MaxChanFrames == 7
MaxLifeFrames == 3
MaxOrderFrames == 6
MaxBoxFrames == 5
PipeFrameMs == {30}
PipeHangoverMs == {30}
PipePrerollMs == {30}
PipeFrameKinds == {"speech", "silence"}

\* Capacities, scaled down from the code's values so that overflow is reached:
\* frame_queue = Queue(maxsize=64), Pipeline._segments = Queue(maxsize=8),
\* partial_ring = deque(maxlen=int(5.0 * 1000 / frame_ms)), and the number of
\* frames that make up min_sec = 1.2 s of audio.
\* MailboxMax scales AudioCapture._queue = Queue(maxsize=100) in the behaviours
\* that fill the mailbox.
FrameQueueMax == 1
SegmentsMax == 1
MailboxMax == 2
RingFrames == 2
MinPartialFrames == 1

Runs == 1..MaxRuns

\* ------------------------------------------------------------ state
VARIABLES
    \* Segmenter object (vad.py Segmenter.__init__)
    hangover_frames,
    preroll_frames,
    \* stand-alone Segmenter: the frames fed so far, and the locals of the
    \* monitor() and segments() generators consuming them
    inp,
    mon,
    mon_out,
    mon_yields,
    sgs,
    sgs_out,
    \* Pipeline object (cli.py Pipeline.__post_init__) and its display
    active,
    stop_evt,
    threads,
    segments,
    level_db,
    vad_active,
    enable_partials,
    tui,
    \* the thread calling start()/stop()/toggle(): "idle", or "joining" inside stop()
    ctl,
    \* start() calls so far; run r's closure is what the r-th start() built
    run,
    \* per run: AudioCapture, monitor() locals, engine_lock, frame_queue, partial_ring
    capture,
    sgm,
    engine_lock,
    frame_queue,
    partial_ring,
    \* per run: position and locals of runner_capture, runner_segmenter,
    \* runner_infer, runner_partials
    cap_pc,
    cap_pcm,
    seg_pc,
    seg_seg,
    inf_pc,
    inf_seg,
    par_pc,
    par_audio,
    par_recent,
    \* frames delivered by the device so far
    nframes,
    \* history: segments completed by a Segmenter, accepted by the segment
    \* channel, passed to engine.transcribe by a final stage, texts handed to
    \* the sink, and the ids of the frames dropped on a full frame channel
    completed,
    accepted,
    transcribed,
    delivered,
    frame_drops,
    \* history: lock contention and stop events as tagged runs; the number of
    \* start() calls that found the pipeline running; and, in order, the frame
    \* ids the segmentation stages consumed, the segments completed, the
    \* segments passed to engine.transcribe by a final stage, and the texts
    \* handed to the sink
    events,
    noop_starts,
    consumed_seq,
    completed_seq,
    transcribed_seq,
    delivered_seq

segVars == <<inp, mon, mon_out, mon_yields, sgs, sgs_out>>
cfgVars == <<hangover_frames, preroll_frames>>
objVars == <<active, stop_evt, threads, segments, level_db, vad_active,
             enable_partials, tui, ctl, run>>
runVars == <<capture, sgm, engine_lock, frame_queue, partial_ring>>
pcVars == <<cap_pc, cap_pcm, seg_pc, seg_seg, inf_pc, inf_seg, par_pc, par_audio,
            par_recent>>
histVars == <<nframes, completed, accepted, transcribed, delivered, frame_drops>>
logVars == <<events, noop_starts, consumed_seq, completed_seq, transcribed_seq,
             delivered_seq>>
pipeVars == <<objVars, runVars, pcVars, histVars, logVars>>
vars == <<cfgVars, segVars, pipeVars>>

\* ------------------------------------------------------------ helpers
Max(a, b) == IF a >= b THEN a ELSE b
Min(a, b) == IF a <= b THEN a ELSE b

\* The last n elements of s (all of s when it is shorter).
LastN(s, n) == SubSeq(s, Max(1, Len(s) - n + 1), Len(s))

\* collections.deque(maxlen=m).append(x): with m = 0 nothing is kept; a full
\* deque discards its leftmost (oldest) element.
DequeAppend_DropNewest(d, x, m) == IF Len(d) >= m THEN d ELSE Append(d, x)
DequeAppend(d, x, m) ==
    IF m = 0 THEN d
    ELSE IF Len(d) >= m THEN Append(Tail(d), x)
    ELSE Append(d, x)

\* ------------------------------------------------------------ Segmenter
\* Segmenter.__init__: durations in ms become frame counts.
SegmenterHangover(frame_ms, hangover_ms) == Max(1, hangover_ms \div frame_ms)
SegmenterPreroll(frame_ms, preroll_ms) == Max(0, preroll_ms \div frame_ms)

\* A classifier whose exception counts as speech.
IsSpeech_FaultAsSpeech(f) == f.kind # "silence"

\* Segmenter.run: the classifier's verdict; a classifier exception counts as
\* not speech.
IsSpeech(f) == IF f.kind = "fault" THEN FALSE ELSE f.kind = "speech"

\* Locals of monitor() / segments() before the first frame.
GenInit == [active |-> FALSE, hang |-> 0, pre |-> <<>>, cur |-> <<>>]

\* What one frame yields: seg_out = None, or a segment.
None == [some |-> FALSE, seg |-> <<>>]
Seg(frames) == [some |-> TRUE, seg |-> frames]

\* seg = np.concatenate(list(cur)) if len(cur) else np.zeros(0); emitted only
\* if seg.size.
Finalized(cur) == IF Len(cur) > 0 THEN Seg(cur) ELSE None

\* One iteration of the loop of monitor() on frame f with locals st:
\* the new locals and the yielded seg_out.
MonitorStep_ClearBeforeEmit(st, f, hf, pf) ==
    IF IsSpeech(f)
    THEN [st |-> [st EXCEPT !.hang = hf, !.active = TRUE,
                            !.cur = IF st.active THEN Append(st.cur, f)
                                    ELSE Append(st.cur \o st.pre, f)],
          out |-> None]
    ELSE IF st.active
         THEN IF st.hang > 0
              THEN [st |-> [st EXCEPT !.hang = st.hang - 1, !.cur = Append(st.cur, f)],
                    out |-> None]
              ELSE [st |-> [st EXCEPT !.cur = <<>>, !.active = FALSE, !.pre = <<>>],
                    out |-> Seg(<<>>)]
         ELSE [st |-> [st EXCEPT !.pre = DequeAppend(st.pre, f, pf)], out |-> None]

MonitorStep_NoHangoverReset(st, f, hf, pf) ==
    IF IsSpeech(f)
    THEN [st |-> [st EXCEPT !.hang = IF st.active THEN st.hang ELSE hf,
                            !.active = TRUE,
                            !.cur = IF st.active THEN Append(st.cur, f)
                                    ELSE Append(st.cur \o st.pre, f)],
          out |-> None]
    ELSE IF st.active
         THEN IF st.hang > 0
              THEN [st |-> [st EXCEPT !.hang = st.hang - 1, !.cur = Append(st.cur, f)],
                    out |-> None]
              ELSE [st |-> [st EXCEPT !.cur = <<>>, !.active = FALSE, !.pre = <<>>],
                    out |-> Finalized(st.cur)]
         ELSE [st |-> [st EXCEPT !.pre = DequeAppend(st.pre, f, pf)], out |-> None]

MonitorStep_EmitOnLastHangover(st, f, hf, pf) ==
    IF IsSpeech(f)
    THEN [st |-> [st EXCEPT !.hang = hf, !.active = TRUE,
                            !.cur = IF st.active THEN Append(st.cur, f)
                                    ELSE Append(st.cur \o st.pre, f)],
          out |-> None]
    ELSE IF st.active
         THEN IF st.hang > 1
              THEN [st |-> [st EXCEPT !.hang = st.hang - 1, !.cur = Append(st.cur, f)],
                    out |-> None]
              ELSE [st |-> [st EXCEPT !.cur = <<>>, !.active = FALSE, !.pre = <<>>,
                                      !.hang = 0],
                    out |-> Seg(Append(st.cur, f))]
         ELSE [st |-> [st EXCEPT !.pre = DequeAppend(st.pre, f, pf)], out |-> None]

MonitorStep_KeepPreAtFinalize(st, f, hf, pf) ==
    IF IsSpeech(f)
    THEN [st |-> [st EXCEPT !.hang = hf, !.active = TRUE,
                            !.cur = IF st.active THEN Append(st.cur, f)
                                    ELSE Append(st.cur \o st.pre, f)],
          out |-> None]
    ELSE IF st.active
         THEN IF st.hang > 0
              THEN [st |-> [st EXCEPT !.hang = st.hang - 1, !.cur = Append(st.cur, f)],
                    out |-> None]
              ELSE [st |-> [st EXCEPT !.cur = <<>>, !.active = FALSE],
                    out |-> Finalized(st.cur)]
         ELSE [st |-> [st EXCEPT !.pre = DequeAppend(st.pre, f, pf)], out |-> None]

\* A finalization that does not clear the segment buffer.
MonitorStep_KeepCurAtFinalize(st, f, hf, pf) ==
    IF IsSpeech(f)
    THEN [st |-> [st EXCEPT !.hang = hf, !.active = TRUE,
                            !.cur = IF st.active THEN Append(st.cur, f)
                                    ELSE Append(st.cur \o st.pre, f)],
          out |-> None]
    ELSE IF st.active
         THEN IF st.hang > 0
              THEN [st |-> [st EXCEPT !.hang = st.hang - 1, !.cur = Append(st.cur, f)],
                    out |-> None]
              ELSE [st |-> [st EXCEPT !.active = FALSE, !.pre = <<>>],
                    out |-> Finalized(st.cur)]
         ELSE [st |-> [st EXCEPT !.pre = DequeAppend(st.pre, f, pf)], out |-> None]

\* A finalization that keeps the frame that triggered it in the preroll ring.
MonitorStep_TriggerToPreroll(st, f, hf, pf) ==
    IF IsSpeech(f)
    THEN [st |-> [st EXCEPT !.hang = hf, !.active = TRUE,
                            !.cur = IF st.active THEN Append(st.cur, f)
                                    ELSE Append(st.cur \o st.pre, f)],
          out |-> None]
    ELSE IF st.active
         THEN IF st.hang > 0
              THEN [st |-> [st EXCEPT !.hang = st.hang - 1, !.cur = Append(st.cur, f)],
                    out |-> None]
              ELSE [st |-> [st EXCEPT !.cur = <<>>, !.active = FALSE,
                                      !.pre = DequeAppend(<<>>, f, pf)],
                    out |-> Finalized(st.cur)]
         ELSE [st |-> [st EXCEPT !.pre = DequeAppend(st.pre, f, pf)], out |-> None]

\* A Trailing state that does not keep the non-speech frames of a pause.
MonitorStep_DropHangoverFrame(st, f, hf, pf) ==
    IF IsSpeech(f)
    THEN [st |-> [st EXCEPT !.hang = hf, !.active = TRUE,
                            !.cur = IF st.active THEN Append(st.cur, f)
                                    ELSE Append(st.cur \o st.pre, f)],
          out |-> None]
    ELSE IF st.active
         THEN IF st.hang > 0
              THEN [st |-> [st EXCEPT !.hang = st.hang - 1, !.cur = st.cur],
                    out |-> None]
              ELSE [st |-> [st EXCEPT !.cur = <<>>, !.active = FALSE, !.pre = <<>>],
                    out |-> Finalized(st.cur)]
         ELSE [st |-> [st EXCEPT !.pre = DequeAppend(st.pre, f, pf)], out |-> None]

MonitorStep(st, f, hf, pf) ==
    IF IsSpeech(f)
    THEN \* hang = hangover_frames; if not active: active = True,
         \* cur.extend(list(pre)); cur.append(pcm).  pre is left as it is.
         [st |-> [st EXCEPT !.hang = hf, !.active = TRUE,
                            !.cur = IF st.active THEN Append(st.cur, f)
                                    ELSE Append(st.cur \o st.pre, f)],
          out |-> None]
    ELSE IF st.active
         THEN IF st.hang > 0
              THEN [st |-> [st EXCEPT !.hang = st.hang - 1, !.cur = Append(st.cur, f)],
                    out |-> None]
              ELSE \* finalize: seg = concatenate(cur) or zeros(0); emitted if
                   \* seg.size; cur.clear(); active = False; pre.clear().
                   \* The frame that triggers it is stored nowhere.
                   [st |-> [st EXCEPT !.cur = <<>>, !.active = FALSE, !.pre = <<>>],
                    out |-> Finalized(st.cur)]
         ELSE [st |-> [st EXCEPT !.pre = DequeAppend(st.pre, f, pf)], out |-> None]

\* A segments() that starts a segment without the preroll.
SegmentsStep_NoPreroll(st, f, hf, pf) ==
    IF IsSpeech(f)
    THEN [st |-> [st EXCEPT !.hang = hf, !.active = TRUE, !.cur = Append(st.cur, f)],
          out |-> None]
    ELSE IF st.active
         THEN IF st.hang > 0
              THEN [st |-> [st EXCEPT !.hang = st.hang - 1, !.cur = Append(st.cur, f)],
                    out |-> None]
              ELSE [st |-> [st EXCEPT !.cur = <<>>, !.active = FALSE, !.pre = <<>>],
                    out |-> Finalized(st.cur)]
         ELSE [st |-> [st EXCEPT !.pre = DequeAppend(st.pre, f, pf)], out |-> None]

\* One iteration of the loop of segments(): the new locals and the segment
\* yielded by this frame, if any (None when the iteration yields nothing).
SegmentsStep(st, f, hf, pf) ==
    IF IsSpeech(f)
    THEN [st |-> [st EXCEPT !.hang = hf, !.active = TRUE,
                            !.cur = IF st.active THEN Append(st.cur, f)
                                    ELSE Append(st.cur \o st.pre, f)],
          out |-> None]
    ELSE IF st.active
         THEN IF st.hang > 0
              THEN [st |-> [st EXCEPT !.hang = st.hang - 1, !.cur = Append(st.cur, f)],
                    out |-> None]
              ELSE [st |-> [st EXCEPT !.cur = <<>>, !.active = FALSE, !.pre = <<>>],
                    out |-> Finalized(st.cur)]
         ELSE [st |-> [st EXCEPT !.pre = DequeAppend(st.pre, f, pf)], out |-> None]

\* ------------------------------------------------------------ Pipeline
\* audio/utils.py rms_dbfs: -120.0 for an empty array, else the level of the
\* samples; the samples are abstracted to the frame's kind.
rms_dbfs(pcm) == IF pcm.kind = "empty" THEN -120
                 ELSE IF pcm.kind = "speech" THEN -20 ELSE -60

\* tui.py TUIState defaults.
TUIState == [recording |-> FALSE, vad_active |-> FALSE, level_db |-> 0,
             partial_text |-> <<>>, last_text |-> <<>>, last_latency_ms |-> "None"]

\* A put that makes room by discarding the oldest queued item.
QueuePut_DropOldest(q, x, cap) ==
    IF Len(q) < cap THEN Append(q, x) ELSE Append(Tail(q), x)

\* A put on a queue that is never full.
QueuePut_Unbounded(q, x, cap) == Append(q, x)

\* queue.Queue(maxsize=cap).put(x, timeout=...): x is appended if there is
\* room; on a full queue the call raises Full after the timeout, which the
\* caller swallows, and the queue is as it was.
QueuePut(q, x, cap) == IF Len(q) < cap THEN Append(q, x) ELSE q

\* AudioCapture.__init__
NewCapture == [running |-> FALSE, stream |-> FALSE, queue |-> <<>>]

\* No frame held (a local not yet bound), and no segment held.
NoFrame == [id |-> 0, kind |-> "empty"]
NoSegment == <<>>

PipeInit ==
    /\ active = FALSE
    /\ stop_evt = FALSE
    /\ threads = {}
    /\ segments = <<>>
    /\ level_db = -120
    /\ vad_active = FALSE
    /\ enable_partials \in BOOLEAN
    /\ tui = TUIState
    /\ ctl = "idle"
    /\ run = 0
    /\ capture = [r \in Runs |-> NewCapture]
    /\ sgm = [r \in Runs |-> GenInit]
    /\ engine_lock = [r \in Runs |-> "free"]
    /\ frame_queue = [r \in Runs |-> <<>>]
    /\ partial_ring = [r \in Runs |-> <<>>]
    /\ cap_pc = [r \in Runs |-> "none"]
    /\ cap_pcm = [r \in Runs |-> NoFrame]
    /\ seg_pc = [r \in Runs |-> "none"]
    /\ seg_seg = [r \in Runs |-> NoSegment]
    /\ inf_pc = [r \in Runs |-> "none"]
    /\ inf_seg = [r \in Runs |-> NoSegment]
    /\ par_pc = [r \in Runs |-> "none"]
    /\ par_audio = [r \in Runs |-> <<>>]
    /\ par_recent = [r \in Runs |-> FALSE]
    /\ nframes = 0
    /\ completed = {}
    /\ accepted = {}
    /\ transcribed = {}
    /\ delivered = {}
    /\ frame_drops = {}
    /\ events = {}
    /\ noop_starts = 0
    /\ consumed_seq = <<>>
    /\ completed_seq = <<>>
    /\ transcribed_seq = <<>>
    /\ delivered_seq = <<>>

SegIdle ==
    /\ inp = <<>>
    /\ mon = GenInit
    /\ mon_out = <<>>
    /\ mon_yields = 0
    /\ sgs = GenInit
    /\ sgs_out = <<>>

Init ==
    /\ \E fm \in PipeFrameMs, hm \in PipeHangoverMs, pm \in PipePrerollMs :
          /\ hangover_frames = SegmenterHangover(fm, hm)
          /\ preroll_frames = SegmenterPreroll(fm, pm)
    /\ PipeInit
    /\ SegIdle

\* A start() that builds a new segment channel.
Start_NewChannel ==
    /\ ctl = "idle"
    /\ ~active
    /\ run < MaxRuns
    /\ LET r == run + 1
       IN /\ run' = r
          /\ stop_evt' = FALSE
          /\ active' = TRUE
          /\ tui' = [tui EXCEPT !.recording = TRUE]
          /\ capture' = [capture EXCEPT ![r] = NewCapture]
          /\ sgm' = [sgm EXCEPT ![r] = GenInit]
          /\ engine_lock' = [engine_lock EXCEPT ![r] = "free"]
          /\ frame_queue' = [frame_queue EXCEPT ![r] = <<>>]
          /\ partial_ring' = [partial_ring EXCEPT ![r] = <<>>]
          /\ cap_pc' = [cap_pc EXCEPT ![r] = "start"]
          /\ seg_pc' = [seg_pc EXCEPT ![r] = "check"]
          /\ inf_pc' = [inf_pc EXCEPT ![r] = "check"]
          /\ par_pc' = [par_pc EXCEPT ![r] = "check"]
          /\ threads' = {r}
          /\ segments' = <<>>
    /\ UNCHANGED <<cfgVars, segVars, logVars, level_db, vad_active, enable_partials,
                   ctl, cap_pcm, seg_seg, inf_seg, par_audio, par_recent, histVars>>

\* ---- start() / stop() / toggle()
\* Pipeline.start when not running (toggle() with _active false is the same
\* call): clears the stop signal, builds the run's components and spawns the
\* four stage threads.
Start ==
    /\ ctl = "idle"
    /\ ~active
    /\ run < MaxRuns
    /\ LET r == run + 1
       IN /\ run' = r
          /\ stop_evt' = FALSE
          /\ active' = TRUE
          /\ tui' = [tui EXCEPT !.recording = TRUE]
          /\ capture' = [capture EXCEPT ![r] = NewCapture]
          /\ sgm' = [sgm EXCEPT ![r] = GenInit]
          /\ engine_lock' = [engine_lock EXCEPT ![r] = "free"]
          /\ frame_queue' = [frame_queue EXCEPT ![r] = <<>>]
          /\ partial_ring' = [partial_ring EXCEPT ![r] = <<>>]
          /\ cap_pc' = [cap_pc EXCEPT ![r] = "start"]
          /\ seg_pc' = [seg_pc EXCEPT ![r] = "check"]
          /\ inf_pc' = [inf_pc EXCEPT ![r] = "check"]
          /\ par_pc' = [par_pc EXCEPT ![r] = "check"]
          /\ threads' = {r}
    /\ UNCHANGED <<cfgVars, segVars, logVars, segments, level_db, vad_active, enable_partials,
                   ctl, cap_pcm, seg_seg, inf_seg, par_audio, par_recent, histVars>>

\* A start() that goes on past the _active test and clears the stop signal.
StartAgain_ClearStop ==
    /\ active
    /\ noop_starts < MaxStartAgain
    /\ noop_starts' = noop_starts + 1
    /\ stop_evt' = FALSE
    /\ UNCHANGED <<cfgVars, segVars, active, threads, segments, level_db, vad_active,
                   enable_partials, tui, ctl, run, runVars, pcVars, histVars, events,
                   consumed_seq, completed_seq, transcribed_seq, delivered_seq>>

\* Pipeline.start while running: `if self._active: return`.  The call may come
\* from any thread (hotkey listener, menu), also while stop() is joining.
StartAgain ==
    /\ active
    /\ noop_starts < MaxStartAgain
    /\ noop_starts' = noop_starts + 1
    /\ UNCHANGED <<cfgVars, segVars, objVars, runVars, pcVars, histVars, events,
                   consumed_seq, completed_seq, transcribed_seq, delivered_seq>>

\* History of a stop() call: the segments waiting on the segment channel
\* (each named by the id of its first frame), and the frames a live Segmenter
\* has accumulated for a segment in progress.
QueuedAtStop == {<<"queued_at_stop", segments[i][1].id>> : i \in 1..Len(segments)}
InProgressAtStop ==
    {<<"in_progress_at_stop", f>> :
        f \in UNION {{sgm[r].cur[i].id : i \in 1..Len(sgm[r].cur)} :
                       r \in {x \in Runs : seg_pc[x] \in {"check", "get", "put"} /\ sgm[x].active}}}

\* Pipeline.stop, first half (toggle() with _active true is the same call):
\* sets the stop signal and starts joining the threads.
StopSignal ==
    /\ ctl = "idle"
    /\ active
    /\ stop_evt' = TRUE
    /\ ctl' = "joining"
    /\ events' = events \cup {<<"stop_in_final", r>> : r \in {x \in Runs : inf_pc[x] = "transcribing"}}
    /\ UNCHANGED <<cfgVars, segVars, noop_starts, consumed_seq, completed_seq, transcribed_seq, delivered_seq, active, threads, segments, level_db, vad_active,
                   enable_partials, tui, run, runVars, pcVars, histVars>>

\* The same call, with the history of what it found written to events.
StopSignalLogged ==
    /\ ctl = "idle"
    /\ active
    /\ stop_evt' = TRUE
    /\ ctl' = "joining"
    /\ events' = events \cup {<<"stop_in_final", r>> : r \in {x \in Runs : inf_pc[x] = "transcribing"}}
                      \cup QueuedAtStop \cup InProgressAtStop
    /\ UNCHANGED <<cfgVars, segVars, noop_starts, consumed_seq, completed_seq,
                   transcribed_seq, delivered_seq, active, threads, segments, level_db,
                   vad_active, enable_partials, tui, run, runVars, pcVars, histVars>>

Ended(pc) == pc \in {"done", "dead"}

\* t.join(timeout=1.5) gives up on a thread that is inside a call of
\* unbounded duration: the device delivering no frame, engine.transcribe,
\* sink.handle_final, or the wait for an engine lock held across a
\* transcribe.  Every other wait of a stage is at most 0.2 s.
MayOutlastJoin(r) ==
    /\ Ended(cap_pc[r]) \/ (cap_pc[r] = "get" /\ capture[r].queue = <<>>)
    /\ Ended(seg_pc[r])
    /\ \/ Ended(inf_pc[r])
       \/ inf_pc[r] \in {"transcribing", "sink"}
       \/ inf_pc[r] = "lock" /\ engine_lock[r] # "free"
    /\ Ended(par_pc[r]) \/ par_pc[r] = "transcribing"

\* Pipeline.stop, second half: every join has returned (the thread ended, or
\* the timeout passed).
StopJoin ==
    /\ ctl = "joining"
    /\ \A r \in threads : MayOutlastJoin(r)
    /\ threads' = {}
    /\ active' = FALSE
    /\ tui' = [tui EXCEPT !.recording = FALSE]
    /\ ctl' = "idle"
    /\ UNCHANGED <<cfgVars, segVars, logVars, stop_evt, segments, level_db, vad_active,
                   enable_partials, run, runVars, pcVars, histVars>>

\* ---- the audio device and runner_capture
\* AudioCapture._callback: the device delivers the next frame while the
\* stream is open; put_nowait drops it when the mailbox (maxsize=100) is full.
DeviceArrival(r, max) ==
    /\ capture[r].stream
    /\ nframes < max
    /\ \E k \in PipeFrameKinds :
          capture' = [capture EXCEPT ![r].queue =
                          QueuePut(@, [id |-> nframes + 1, kind |-> k], 100)]
    /\ nframes' = nframes + 1
    /\ UNCHANGED <<cfgVars, segVars, logVars, objVars, sgm, engine_lock, frame_queue,
                   partial_ring, pcVars, completed, accepted, transcribed,
                   delivered, frame_drops>>

\* The same callback for a speaker who repeats the shortest utterance the
\* Segmenter completes with the configured hangover: one speech frame, then
\* two non-speech frames.
UtteranceKind(id) == IF id % 3 = 1 THEN "speech" ELSE "silence"

DeviceUtterance(r) ==
    /\ capture[r].stream
    /\ nframes < MaxOrderFrames
    /\ capture' = [capture EXCEPT ![r].queue =
                       QueuePut(@, [id |-> nframes + 1, kind |-> UtteranceKind(nframes + 1)], 100)]
    /\ nframes' = nframes + 1
    /\ UNCHANGED <<cfgVars, segVars, logVars, objVars, sgm, engine_lock, frame_queue,
                   partial_ring, pcVars, completed, accepted, transcribed,
                   delivered, frame_drops>>

\* The same callback on a mailbox of capacity MailboxMax: put_nowait raises
\* Full at once on a full mailbox, the except clause swallows it, and the
\* callback returns.
DeviceFrameBox(r) ==
    /\ capture[r].stream
    /\ nframes < MaxBoxFrames
    /\ \E k \in PipeFrameKinds :
          capture' = [capture EXCEPT ![r].queue =
                          QueuePut(@, [id |-> nframes + 1, kind |-> k], MailboxMax)]
    /\ nframes' = nframes + 1
    /\ UNCHANGED <<cfgVars, segVars, logVars, objVars, sgm, engine_lock, frame_queue,
                   partial_ring, pcVars, completed, accepted, transcribed,
                   delivered, frame_drops>>

DeviceFrame(r) == DeviceArrival(r, MaxFrames)
DeviceFrameRun(r) == DeviceArrival(r, MaxRunFrames)
DeviceFrameChan(r) == DeviceArrival(r, MaxChanFrames)
DeviceFrameLife(r) == DeviceArrival(r, MaxLifeFrames)

\* capture.start()
CaptureStart(r) ==
    /\ cap_pc[r] = "start"
    /\ capture' = [capture EXCEPT ![r].running = TRUE, ![r].stream = TRUE]
    /\ cap_pc' = [cap_pc EXCEPT ![r] = "get"]
    /\ UNCHANGED <<cfgVars, segVars, logVars, objVars, sgm, engine_lock, frame_queue,
                   partial_ring, cap_pcm, seg_pc, seg_seg, inf_pc, inf_seg, par_pc,
                   par_audio, par_recent, histVars>>

\* capture.start() raises (the device cannot be opened): _running is already
\* set, no stream delivers frames, and the exception ends the thread.
CaptureStartRaise(r) ==
    /\ cap_pc[r] = "start"
    /\ capture' = [capture EXCEPT ![r].running = TRUE]
    /\ cap_pc' = [cap_pc EXCEPT ![r] = "dead"]
    /\ UNCHANGED <<cfgVars, segVars, logVars, objVars, sgm, engine_lock, frame_queue,
                   partial_ring, cap_pcm, seg_pc, seg_seg, inf_pc, inf_seg, par_pc,
                   par_audio, par_recent, histVars>>

\* for pcm in capture.frames(): a frame is taken from the mailbox (an empty
\* mailbox is polled again), _level_db is set, and the stop signal is read.
CaptureGet(r) ==
    /\ cap_pc[r] = "get"
    /\ capture[r].running
    /\ capture[r].queue # <<>>
    /\ LET pcm == Head(capture[r].queue)
       IN /\ capture' = [capture EXCEPT ![r].queue = Tail(@)]
          /\ level_db' = rms_dbfs(pcm)
          /\ IF stop_evt
             THEN cap_pc' = [cap_pc EXCEPT ![r] = "stop"] /\ cap_pcm' = cap_pcm
             ELSE /\ cap_pc' = [cap_pc EXCEPT ![r] = "put"]
                  /\ cap_pcm' = [cap_pcm EXCEPT ![r] = pcm]
    /\ UNCHANGED <<cfgVars, segVars, logVars, active, stop_evt, threads, segments, vad_active,
                   enable_partials, tui, ctl, run, sgm, engine_lock, frame_queue,
                   partial_ring, seg_pc, seg_seg, inf_pc, inf_seg, par_pc, par_audio,
                   par_recent, histVars>>

\* frame_queue.put(pcm, timeout=0.1), Full swallowed.
CapturePut(r) ==
    /\ cap_pc[r] = "put"
    /\ frame_queue' = [frame_queue EXCEPT ![r] = QueuePut(@, cap_pcm[r], FrameQueueMax)]
    /\ frame_drops' = IF frame_queue'[r] = frame_queue[r]
                      THEN frame_drops \cup {cap_pcm[r].id} ELSE frame_drops
    /\ cap_pc' = [cap_pc EXCEPT ![r] = "ring"]
    /\ UNCHANGED <<cfgVars, segVars, logVars, objVars, capture, sgm, engine_lock, partial_ring,
                   cap_pcm, seg_pc, seg_seg, inf_pc, inf_seg, par_pc, par_audio,
                   par_recent, nframes, completed, accepted, transcribed, delivered>>

\* partial_ring.append(pcm)
CaptureRing(r) ==
    /\ cap_pc[r] = "ring"
    /\ partial_ring' = [partial_ring EXCEPT ![r] = DequeAppend(@, cap_pcm[r], RingFrames)]
    /\ cap_pcm' = [cap_pcm EXCEPT ![r] = NoFrame]
    /\ cap_pc' = [cap_pc EXCEPT ![r] = "get"]
    /\ UNCHANGED <<cfgVars, segVars, logVars, objVars, capture, sgm, engine_lock, frame_queue,
                   seg_pc, seg_seg, inf_pc, inf_seg, par_pc, par_audio, par_recent,
                   histVars>>

\* capture.stop(): the stream is closed and the mailbox drained.
CaptureStop(r) ==
    /\ cap_pc[r] = "stop"
    /\ capture' = [capture EXCEPT ![r] = NewCapture]
    /\ cap_pc' = [cap_pc EXCEPT ![r] = "done"]
    /\ UNCHANGED <<cfgVars, segVars, logVars, objVars, sgm, engine_lock, frame_queue,
                   partial_ring, cap_pcm, seg_pc, seg_seg, inf_pc, inf_seg, par_pc,
                   par_audio, par_recent, histVars>>

\* ---- runner_segmenter
\* The position after a loop-top read of the stop signal that found it clear
\* ("check" is the thread's first such read; later ones are taken together with
\* the step that leads back to the loop top).
LoopTop(to) == IF stop_evt THEN "done" ELSE to

\* _iter_queue: while not stop_evt.is_set()
SegCheck(r) ==
    /\ seg_pc[r] = "check"
    /\ seg_pc' = [seg_pc EXCEPT ![r] = IF stop_evt THEN "done" ELSE "get"]
    /\ UNCHANGED <<cfgVars, segVars, logVars, objVars, runVars, cap_pc, cap_pcm, seg_seg,
                   inf_pc, inf_seg, par_pc, par_audio, par_recent, histVars>>

\* q.get(timeout=0.2) on an empty frame_queue times out and the loop reads the
\* stop signal again; with the signal clear it is back in the same get.
SegGetTimeout(r) ==
    /\ seg_pc[r] = "get"
    /\ frame_queue[r] = <<>>
    /\ stop_evt
    /\ seg_pc' = [seg_pc EXCEPT ![r] = "done"]
    /\ UNCHANGED <<cfgVars, segVars, logVars, objVars, runVars, cap_pc, cap_pcm, seg_seg,
                   inf_pc, inf_seg, par_pc, par_audio, par_recent, histVars>>

\* A loop body of runner_segmenter without the break on the stop signal.
SegFrame_NoStopCheck(r) ==
    /\ seg_pc[r] = "get"
    /\ frame_queue[r] # <<>>
    /\ LET f == Head(frame_queue[r])
           m == MonitorStep(sgm[r], f, hangover_frames, preroll_frames)
       IN /\ frame_queue' = [frame_queue EXCEPT ![r] = Tail(@)]
          /\ sgm' = [sgm EXCEPT ![r] = m.st]
          /\ vad_active' = m.st.active
          /\ level_db' = rms_dbfs(f)
          /\ tui' = [tui EXCEPT !.vad_active = m.st.active, !.level_db = rms_dbfs(f)]
          /\ completed' = IF m.out.some THEN completed \cup {m.out.seg} ELSE completed
          /\ consumed_seq' = Append(consumed_seq, f.id)
          /\ completed_seq' = IF m.out.some THEN Append(completed_seq, m.out.seg)
                                             ELSE completed_seq
          /\ IF m.out.some
             THEN /\ seg_pc' = [seg_pc EXCEPT ![r] = "put"]
                  /\ seg_seg' = [seg_seg EXCEPT ![r] = m.out.seg]
             ELSE seg_pc' = [seg_pc EXCEPT ![r] = LoopTop("get")] /\ seg_seg' = seg_seg
    /\ UNCHANGED <<cfgVars, segVars, events, noop_starts, transcribed_seq, delivered_seq,
                   active, stop_evt, threads, segments, enable_partials, ctl, run,
                   capture, engine_lock, partial_ring, cap_pc, cap_pcm, inf_pc, inf_seg,
                   par_pc, par_audio, par_recent, nframes, accepted, transcribed,
                   delivered, frame_drops>>

\* One frame through segmenter.monitor and the loop body of runner_segmenter:
\* _vad_active, _level_db and the display are updated, then the stop signal
\* is read (break), then a completed segment is kept for the put.
SegFrame(r) ==
    /\ seg_pc[r] = "get"
    /\ frame_queue[r] # <<>>
    /\ LET f == Head(frame_queue[r])
           m == MonitorStep(sgm[r], f, hangover_frames, preroll_frames)
       IN /\ frame_queue' = [frame_queue EXCEPT ![r] = Tail(@)]
          /\ sgm' = [sgm EXCEPT ![r] = m.st]
          /\ vad_active' = m.st.active
          /\ level_db' = rms_dbfs(f)
          /\ tui' = [tui EXCEPT !.vad_active = m.st.active, !.level_db = rms_dbfs(f)]
          /\ completed' = IF m.out.some THEN completed \cup {m.out.seg} ELSE completed
          /\ consumed_seq' = Append(consumed_seq, f.id)
          /\ completed_seq' = IF m.out.some THEN Append(completed_seq, m.out.seg)
                                             ELSE completed_seq
          /\ IF stop_evt
             THEN seg_pc' = [seg_pc EXCEPT ![r] = "done"] /\ seg_seg' = seg_seg
             ELSE IF m.out.some
             THEN /\ seg_pc' = [seg_pc EXCEPT ![r] = "put"]
                  /\ seg_seg' = [seg_seg EXCEPT ![r] = m.out.seg]
             ELSE seg_pc' = [seg_pc EXCEPT ![r] = "get"] /\ seg_seg' = seg_seg
    /\ UNCHANGED <<cfgVars, segVars, events, noop_starts, transcribed_seq, delivered_seq, active, stop_evt, threads, segments,
                   enable_partials, ctl, run, capture, engine_lock, partial_ring,
                   cap_pc, cap_pcm, inf_pc, inf_seg, par_pc, par_audio, par_recent,
                   nframes, accepted, transcribed, delivered, frame_drops>>

\* self._segments.put(seg, timeout=0.1), Full swallowed.
SegPut(r) ==
    /\ seg_pc[r] = "put"
    /\ segments' = QueuePut(segments, seg_seg[r], SegmentsMax)
    /\ accepted' = IF segments' # segments
                   THEN accepted \cup {seg_seg[r]} ELSE accepted
    /\ seg_seg' = [seg_seg EXCEPT ![r] = NoSegment]
    /\ seg_pc' = [seg_pc EXCEPT ![r] = LoopTop("get")]
    /\ UNCHANGED <<cfgVars, segVars, logVars, active, stop_evt, threads, level_db, vad_active,
                   enable_partials, tui, ctl, run, runVars, cap_pc, cap_pcm, inf_pc,
                   inf_seg, par_pc, par_audio, par_recent, nframes, completed,
                   transcribed, delivered, frame_drops>>

\* ---- runner_infer
\* while not self._stop_evt.is_set()
InfCheck(r) ==
    /\ inf_pc[r] = "check"
    /\ inf_pc' = [inf_pc EXCEPT ![r] = IF stop_evt THEN "done" ELSE "get"]
    /\ UNCHANGED <<cfgVars, segVars, logVars, objVars, runVars, cap_pc, cap_pcm, seg_pc,
                   seg_seg, inf_seg, par_pc, par_audio, par_recent, histVars>>

\* self._segments.get(timeout=0.2) times out (continue) and the loop reads the
\* stop signal again.
InfGetTimeout(r) ==
    /\ inf_pc[r] = "get"
    /\ segments = <<>>
    /\ stop_evt
    /\ inf_pc' = [inf_pc EXCEPT ![r] = "done"]
    /\ UNCHANGED <<cfgVars, segVars, logVars, objVars, runVars, cap_pc, cap_pcm, seg_pc,
                   seg_seg, inf_seg, par_pc, par_audio, par_recent, histVars>>

\* seg = self._segments.get(timeout=0.2)
InfGet(r) ==
    /\ inf_pc[r] = "get"
    /\ segments # <<>>
    /\ inf_seg' = [inf_seg EXCEPT ![r] = Head(segments)]
    /\ segments' = Tail(segments)
    /\ inf_pc' = [inf_pc EXCEPT ![r] = "lock"]
    /\ events' = IF engine_lock[r] = "partial" THEN events \cup {<<"wait", r>>} ELSE events
    /\ UNCHANGED <<cfgVars, segVars, noop_starts, consumed_seq, completed_seq, transcribed_seq, delivered_seq, active, stop_evt, threads, level_db, vad_active,
                   enable_partials, tui, ctl, run, runVars, cap_pc, cap_pcm, seg_pc,
                   seg_seg, par_pc, par_audio, par_recent, histVars>>

\* with engine_lock: (blocking acquire), then engine.transcribe(seg) is entered.
InfLock_TryOnce(r) ==
    /\ inf_pc[r] = "lock"
    /\ IF engine_lock[r] = "free"
       THEN /\ engine_lock' = [engine_lock EXCEPT ![r] = "final"]
            /\ transcribed' = transcribed \cup {inf_seg[r]}
            /\ transcribed_seq' = Append(transcribed_seq, inf_seg[r])
            /\ inf_pc' = [inf_pc EXCEPT ![r] = "transcribing"]
            /\ inf_seg' = inf_seg
       ELSE /\ engine_lock' = engine_lock
            /\ transcribed' = transcribed
            /\ transcribed_seq' = transcribed_seq
            /\ inf_pc' = [inf_pc EXCEPT ![r] = LoopTop("get")]
            /\ inf_seg' = [inf_seg EXCEPT ![r] = NoSegment]
    /\ UNCHANGED <<cfgVars, segVars, events, noop_starts, consumed_seq, completed_seq, delivered_seq, objVars, capture, sgm, frame_queue, partial_ring,
                   cap_pc, cap_pcm, seg_pc, seg_seg, par_pc, par_audio,
                   par_recent, nframes, completed, accepted, delivered, frame_drops>>

InfLock(r) ==
    /\ inf_pc[r] = "lock"
    /\ engine_lock[r] = "free"
    /\ engine_lock' = [engine_lock EXCEPT ![r] = "final"]
    /\ transcribed' = transcribed \cup {inf_seg[r]}
    /\ transcribed_seq' = Append(transcribed_seq, inf_seg[r])
    /\ inf_pc' = [inf_pc EXCEPT ![r] = "transcribing"]
    /\ UNCHANGED <<cfgVars, segVars, events, noop_starts, consumed_seq, completed_seq, delivered_seq, objVars, capture, sgm, frame_queue, partial_ring,
                   cap_pc, cap_pcm, seg_pc, seg_seg, inf_seg, par_pc, par_audio,
                   par_recent, nframes, completed, accepted, delivered, frame_drops>>

\* engine.transcribe(seg) returns its text (the segment's words, or ""), the
\* lock is released, and an empty text ends the iteration.  The text of a
\* segment is modelled by the segment itself, "" by the empty sequence.
InfReturn(r) ==
    /\ inf_pc[r] = "transcribing"
    /\ engine_lock' = [engine_lock EXCEPT ![r] = "free"]
    /\ \E text \in {inf_seg[r], <<>>} :
          IF text # <<>>
          THEN inf_pc' = [inf_pc EXCEPT ![r] = "sink"] /\ inf_seg' = inf_seg
          ELSE /\ inf_pc' = [inf_pc EXCEPT ![r] = LoopTop("get")]
               /\ inf_seg' = [inf_seg EXCEPT ![r] = NoSegment]
    /\ UNCHANGED <<cfgVars, segVars, logVars, objVars, capture, sgm, frame_queue, partial_ring,
                   cap_pc, cap_pcm, seg_pc, seg_seg, par_pc, par_audio, par_recent,
                   histVars>>

\* A final stage that takes the lock without a with block: a raise leaves it held.
InfRaise_KeepLock(r) ==
    /\ inf_pc[r] = "transcribing"
    /\ inf_pc' = [inf_pc EXCEPT ![r] = "dead"]
    /\ inf_seg' = [inf_seg EXCEPT ![r] = NoSegment]
    /\ UNCHANGED <<cfgVars, segVars, logVars, objVars, runVars, cap_pc, cap_pcm, seg_pc,
                   seg_seg, par_pc, par_audio, par_recent, histVars>>

\* engine.transcribe(seg) raises: the with block releases the lock and the
\* exception ends the thread.
InfRaise(r) ==
    /\ inf_pc[r] = "transcribing"
    /\ engine_lock' = [engine_lock EXCEPT ![r] = "free"]
    /\ inf_pc' = [inf_pc EXCEPT ![r] = "dead"]
    /\ inf_seg' = [inf_seg EXCEPT ![r] = NoSegment]
    /\ UNCHANGED <<cfgVars, segVars, logVars, objVars, capture, sgm, frame_queue, partial_ring,
                   cap_pc, cap_pcm, seg_pc, seg_seg, par_pc, par_audio, par_recent,
                   histVars>>

\* A final stage that tests the stop signal before it calls the sink.
InfSink_SkipWhenStopped(r) ==
    /\ inf_pc[r] = "sink"
    /\ delivered' = IF stop_evt THEN delivered ELSE delivered \cup {inf_seg[r]}
    /\ delivered_seq' = IF stop_evt THEN delivered_seq ELSE Append(delivered_seq, inf_seg[r])
    /\ inf_pc' = [inf_pc EXCEPT ![r] = IF stop_evt THEN "done" ELSE "publish"]
    /\ UNCHANGED <<cfgVars, segVars, events, noop_starts, consumed_seq, completed_seq,
                   transcribed_seq, objVars, runVars, cap_pc, cap_pcm, seg_pc,
                   seg_seg, inf_seg, par_pc, par_audio, par_recent, nframes,
                   completed, accepted, transcribed, frame_drops>>

\* sink.handle_final(text)
InfSink(r) ==
    /\ inf_pc[r] = "sink"
    /\ delivered' = delivered \cup {inf_seg[r]}
    /\ delivered_seq' = Append(delivered_seq, inf_seg[r])
    /\ inf_pc' = [inf_pc EXCEPT ![r] = "publish"]
    /\ UNCHANGED <<cfgVars, segVars, events, noop_starts, consumed_seq, completed_seq, transcribed_seq, objVars, runVars, cap_pc, cap_pcm, seg_pc,
                   seg_seg, inf_seg, par_pc, par_audio, par_recent, nframes,
                   completed, accepted, transcribed, frame_drops>>

\* sink.handle_final(text) raises: the exception ends the thread.
InfSinkRaise(r) ==
    /\ inf_pc[r] = "sink"
    /\ inf_pc' = [inf_pc EXCEPT ![r] = "dead"]
    /\ inf_seg' = [inf_seg EXCEPT ![r] = NoSegment]
    /\ UNCHANGED <<cfgVars, segVars, logVars, objVars, runVars, cap_pc, cap_pcm, seg_pc,
                   seg_seg, par_pc, par_audio, par_recent, histVars>>

\* partial_ring.clear(); tui.update(partial_text="", last_text=text,
\* last_latency_ms=latency)
InfPublish(r) ==
    /\ inf_pc[r] = "publish"
    /\ partial_ring' = [partial_ring EXCEPT ![r] = <<>>]
    /\ tui' = [tui EXCEPT !.partial_text = <<>>, !.last_text = inf_seg[r],
                          !.last_latency_ms = "ms"]
    /\ inf_seg' = [inf_seg EXCEPT ![r] = NoSegment]
    /\ inf_pc' = [inf_pc EXCEPT ![r] = LoopTop("get")]
    /\ UNCHANGED <<cfgVars, segVars, logVars, active, stop_evt, threads, segments, level_db,
                   vad_active, enable_partials, ctl, run, capture, sgm, engine_lock,
                   frame_queue, cap_pc, cap_pcm, seg_pc, seg_seg, par_pc, par_audio,
                   par_recent, histVars>>

\* ---- runner_partials
\* while not self._stop_evt.is_set(): time.sleep(0.1)
ParCheck(r) ==
    /\ par_pc[r] = "check"
    /\ par_pc' = [par_pc EXCEPT ![r] = IF stop_evt THEN "done" ELSE "tick"]
    /\ UNCHANGED <<cfgVars, segVars, logVars, objVars, runVars, cap_pc, cap_pcm, seg_pc,
                   seg_seg, inf_pc, inf_seg, par_audio, par_recent, histVars>>

\* A tick that does not test _vad_active.
ParTick_IgnoreVad(r) ==
    /\ par_pc[r] = "tick"
    /\ IF ~enable_partials
       THEN /\ par_pc' = [par_pc EXCEPT ![r] = LoopTop("tick")]
            /\ UNCHANGED par_audio
       ELSE IF par_recent[r] \/ partial_ring[r] = <<>>
               \/ Len(partial_ring[r]) < MinPartialFrames
       THEN /\ par_pc' = [par_pc EXCEPT ![r] = LoopTop("tick")]
            /\ UNCHANGED par_audio
       ELSE /\ par_audio' = [par_audio EXCEPT ![r] = partial_ring[r]]
            /\ par_pc' = [par_pc EXCEPT ![r] = "try"]
    /\ UNCHANGED <<cfgVars, segVars, logVars, objVars, runVars, cap_pc, cap_pcm,
                   seg_pc, seg_seg, inf_pc, inf_seg, par_recent, histVars>>

\* After the sleep: partials disabled -> continue; VAD inactive -> clear a
\* lingering partial_text, continue; cadence_sec not yet elapsed since the
\* last emitted partial -> continue; rolling window empty or shorter than
\* min_sec -> continue; else the window is kept for the transcription.
ParTick(r) ==
    /\ par_pc[r] = "tick"
    /\ IF ~enable_partials
       THEN /\ par_pc' = [par_pc EXCEPT ![r] = LoopTop("tick")]
            /\ UNCHANGED <<tui, par_audio>>
       ELSE IF ~vad_active
       THEN /\ tui' = IF tui.partial_text # <<>>
                      THEN [tui EXCEPT !.partial_text = <<>>] ELSE tui
            /\ par_pc' = [par_pc EXCEPT ![r] = LoopTop("tick")]
            /\ UNCHANGED par_audio
       ELSE IF par_recent[r] \/ partial_ring[r] = <<>>
               \/ Len(partial_ring[r]) < MinPartialFrames
       THEN /\ par_pc' = [par_pc EXCEPT ![r] = LoopTop("tick")]
            /\ UNCHANGED <<tui, par_audio>>
       ELSE /\ par_audio' = [par_audio EXCEPT ![r] = partial_ring[r]]
            /\ par_pc' = [par_pc EXCEPT ![r] = "try"]
            /\ UNCHANGED tui
    /\ UNCHANGED <<cfgVars, segVars, logVars, active, stop_evt, threads, segments, level_db,
                   vad_active, enable_partials, ctl, run, runVars, cap_pc, cap_pcm,
                   seg_pc, seg_seg, inf_pc, inf_seg, par_recent, histVars>>

\* A partial stage that waits for the lock (engine_lock.acquire()).
ParTry_Blocking(r) ==
    /\ par_pc[r] = "try"
    /\ engine_lock[r] = "free"
    /\ engine_lock' = [engine_lock EXCEPT ![r] = "partial"]
    /\ par_pc' = [par_pc EXCEPT ![r] = "transcribing"]
    /\ UNCHANGED <<cfgVars, segVars, logVars, objVars, capture, sgm, frame_queue, partial_ring,
                   cap_pc, cap_pcm, seg_pc, seg_seg, inf_pc, inf_seg, par_audio,
                   par_recent, histVars>>

\* locked = engine_lock.acquire(blocking=False); if not locked: continue;
\* else engine.transcribe(audio) is entered.
ParTry_NoLock(r) ==
    /\ par_pc[r] = "try"
    /\ engine_lock' = [engine_lock EXCEPT ![r] = "partial"]
    /\ par_pc' = [par_pc EXCEPT ![r] = "transcribing"]
    /\ par_audio' = par_audio
    /\ UNCHANGED <<cfgVars, segVars, logVars, objVars, capture, sgm, frame_queue, partial_ring,
                   cap_pc, cap_pcm, seg_pc, seg_seg, inf_pc, inf_seg, par_recent,
                   histVars>>

ParTry(r) ==
    /\ par_pc[r] = "try"
    /\ IF engine_lock[r] = "free"
       THEN /\ engine_lock' = [engine_lock EXCEPT ![r] = "partial"]
            /\ par_pc' = [par_pc EXCEPT ![r] = "transcribing"]
            /\ par_audio' = par_audio
            /\ events' = IF inf_pc[r] = "lock" THEN events \cup {<<"wait", r>>} ELSE events
       ELSE /\ engine_lock' = engine_lock
            /\ par_pc' = [par_pc EXCEPT ![r] = LoopTop("tick")]
            /\ par_audio' = [par_audio EXCEPT ![r] = <<>>]
            /\ events' = events \cup {<<"skip", r>>}
    /\ UNCHANGED <<cfgVars, segVars, noop_starts, consumed_seq, completed_seq, transcribed_seq, delivered_seq, objVars, capture, sgm, frame_queue, partial_ring,
                   cap_pc, cap_pcm, seg_pc, seg_seg, inf_pc, inf_seg, par_recent,
                   histVars>>

\* A partial stage whose transcribe returns without releasing the lock.
ParReturn_KeepLock(r) ==
    /\ par_pc[r] = "transcribing"
    /\ par_audio' = [par_audio EXCEPT ![r] = <<>>]
    /\ par_pc' = [par_pc EXCEPT ![r] = LoopTop("tick")]
    /\ UNCHANGED <<cfgVars, segVars, logVars, objVars, capture, sgm, engine_lock,
                   frame_queue, partial_ring, cap_pc, cap_pcm, seg_pc, seg_seg, inf_pc,
                   inf_seg, par_recent, histVars>>

\* engine.transcribe(audio) returns; a non-empty text is published as
\* partial_text and last_emit = now; finally: engine_lock.release().
ParReturn(r) ==
    /\ par_pc[r] = "transcribing"
    /\ engine_lock' = [engine_lock EXCEPT ![r] = "free"]
    /\ \E text \in {par_audio[r], <<>>} :
          IF text # <<>>
          THEN /\ tui' = [tui EXCEPT !.partial_text = text]
               /\ par_recent' = [par_recent EXCEPT ![r] = TRUE]
          ELSE UNCHANGED <<tui, par_recent>>
    /\ par_audio' = [par_audio EXCEPT ![r] = <<>>]
    /\ par_pc' = [par_pc EXCEPT ![r] = LoopTop("tick")]
    /\ UNCHANGED <<cfgVars, segVars, logVars, active, stop_evt, threads, segments, level_db,
                   vad_active, enable_partials, ctl, run, capture, sgm, frame_queue,
                   partial_ring, cap_pc, cap_pcm, seg_pc, seg_seg, inf_pc, inf_seg,
                   histVars>>

\* engine.transcribe(audio) raises: finally releases the lock, the exception
\* ends the thread.
ParRaise(r) ==
    /\ par_pc[r] = "transcribing"
    /\ engine_lock' = [engine_lock EXCEPT ![r] = "free"]
    /\ par_audio' = [par_audio EXCEPT ![r] = <<>>]
    /\ par_pc' = [par_pc EXCEPT ![r] = "dead"]
    /\ UNCHANGED <<cfgVars, segVars, logVars, objVars, capture, sgm, frame_queue, partial_ring,
                   cap_pc, cap_pcm, seg_pc, seg_seg, inf_pc, inf_seg, par_recent,
                   histVars>>

\* cadence_sec = 1.0 has passed since last_emit.
CadenceElapses(r) ==
    /\ par_recent[r]
    /\ par_recent' = [par_recent EXCEPT ![r] = FALSE]
    /\ UNCHANGED <<cfgVars, segVars, logVars, objVars, runVars, cap_pc, cap_pcm, seg_pc,
                   seg_seg, inf_pc, inf_seg, par_pc, par_audio, histVars>>

\* ---- start(), stop() and the four stages of every run, partials enabled or
\* not (start() while running and device faults are part of LifeNext)
Next ==
    \/ Start
    \/ StopSignal
    \/ StopJoin
    \/ \E r \in Runs :
          \/ DeviceFrame(r)
          \/ CaptureStart(r)
          \/ CaptureGet(r)
          \/ CapturePut(r)
          \/ CaptureRing(r)
          \/ CaptureStop(r)
          \/ SegCheck(r)
          \/ SegGetTimeout(r)
          \/ SegFrame(r)
          \/ SegPut(r)
          \/ InfCheck(r)
          \/ InfGetTimeout(r)
          \/ InfGet(r)
          \/ InfLock(r)
          \/ InfReturn(r)
          \/ InfRaise(r)
          \/ InfSink(r)
          \/ InfSinkRaise(r)
          \/ InfPublish(r)
          \/ ParCheck(r)
          \/ ParTick(r)
          \/ ParTry(r)
          \/ ParReturn(r)
          \/ ParRaise(r)
          \/ CadenceElapses(r)

Spec == Init /\ [][Next]_vars

\* ---- one uninterrupted run: start() is called once and stop() never
RunNext ==
    \/ Start
    \/ \E r \in Runs :
          \/ DeviceFrameRun(r)
          \/ CaptureStart(r)
          \/ CaptureGet(r)
          \/ CapturePut(r)
          \/ CaptureRing(r)
          \/ SegCheck(r)
          \/ SegFrame(r)
          \/ SegPut(r)
          \/ InfCheck(r)
          \/ InfGet(r)
          \/ InfLock(r)
          \/ InfReturn(r)
          \/ InfRaise(r)
          \/ InfSink(r)
          \/ InfSinkRaise(r)
          \/ InfPublish(r)
          \/ ParCheck(r)
          \/ ParTick(r)
          \/ ParTry(r)
          \/ ParReturn(r)
          \/ ParRaise(r)
          \/ CadenceElapses(r)

RunSpec == Init /\ [][RunNext]_vars

\* ---- one uninterrupted run with partials disabled (enable_partials=False,
\* as the menu-bar app builds its Pipeline): the partial stage only sleeps
ChanInit == Init /\ ~enable_partials

ChanNext ==
    \/ Start
    \/ \E r \in Runs :
          \/ DeviceFrameChan(r)
          \/ CaptureStart(r)
          \/ CaptureGet(r)
          \/ CapturePut(r)
          \/ CaptureRing(r)
          \/ SegCheck(r)
          \/ SegFrame(r)
          \/ SegPut(r)
          \/ InfCheck(r)
          \/ InfGet(r)
          \/ InfLock(r)
          \/ InfReturn(r)
          \/ InfRaise(r)
          \/ InfSink(r)
          \/ InfSinkRaise(r)
          \/ InfPublish(r)
          \/ ParCheck(r)
          \/ ParTick(r)

ChanSpec == ChanInit /\ [][ChanNext]_vars

\* ---- the same run with a mailbox the device can fill
BoxNext ==
    \/ Start
    \/ \E r \in Runs :
          \/ DeviceFrameBox(r)
          \/ CaptureStart(r)
          \/ CaptureGet(r)
          \/ CapturePut(r)
          \/ CaptureRing(r)
          \/ SegCheck(r)
          \/ SegFrame(r)
          \/ SegPut(r)
          \/ InfCheck(r)
          \/ InfGet(r)
          \/ InfLock(r)
          \/ InfReturn(r)
          \/ InfRaise(r)
          \/ InfSink(r)
          \/ InfSinkRaise(r)
          \/ InfPublish(r)
          \/ ParCheck(r)
          \/ ParTick(r)

BoxSpec == ChanInit /\ [][BoxNext]_vars

\* ---- start(), stop() and device faults with partials disabled
\* (enable_partials=False): the partial stage only sleeps and reads the stop
\* signal.  The stage threads are scheduled fairly, the calls they make
\* return, and a stop() under way finishes its bounded joins; the caller of
\* start()/stop() and the device owe nothing.
CaptureSteps(r) ==
    \/ CaptureStart(r)
    \/ CaptureStartRaise(r)
    \/ CaptureGet(r)
    \/ CapturePut(r)
    \/ CaptureRing(r)
    \/ CaptureStop(r)

SegSteps(r) ==
    \/ SegCheck(r)
    \/ SegGetTimeout(r)
    \/ SegFrame(r)
    \/ SegPut(r)

InfSteps(r) ==
    \/ InfCheck(r)
    \/ InfGetTimeout(r)
    \/ InfGet(r)
    \/ InfLock(r)
    \/ InfReturn(r)
    \/ InfRaise(r)
    \/ InfSink(r)
    \/ InfSinkRaise(r)
    \/ InfPublish(r)

ParIdleSteps(r) ==
    \/ ParCheck(r)
    \/ ParTick(r)

LifeNext ==
    \/ Start
    \/ StartAgain
    \/ StopSignal
    \/ StopJoin
    \/ \E r \in Runs :
          \/ DeviceFrameLife(r)
          \/ CaptureSteps(r)
          \/ SegSteps(r)
          \/ InfSteps(r)
          \/ ParIdleSteps(r)

LifeFairness ==
    /\ WF_vars(StopJoin)
    /\ \A r \in Runs :
                    /\ WF_vars(CaptureSteps(r))
                    /\ WF_vars(SegSteps(r))
                    /\ WF_vars(InfSteps(r))
                    /\ WF_vars(ParIdleSteps(r))

LifeSpec == ChanInit /\ [][LifeNext]_vars /\ LifeFairness

\* ---- start(), stop(), start() around two utterances, partials disabled;
\* the last run is left running
OrderNext ==
    \/ Start
    \/ run < MaxRuns /\ StopSignalLogged
    \/ StopJoin
    \/ \E r \in Runs :
          \/ DeviceUtterance(r)
          \/ CaptureStart(r)
          \/ CaptureGet(r)
          \/ CapturePut(r)
          \/ CaptureRing(r)
          \/ CaptureStop(r)
          \/ SegSteps(r)
          \/ InfSteps(r)
          \/ ParIdleSteps(r)

OrderSpec == ChanInit /\ [][OrderNext]_vars

\* ---- one uninterrupted run under fair scheduling.  Every engine.transcribe
\* call of the partial stage ends (by return or by raise), and a final stage
\* blocked in the acquire of the engine lock gets the lock once it is
\* released: the only other taker, the partial stage, sleeps 0.1 s at its
\* loop top before it can try again.
LiveNext ==
    \/ Start
    \/ \E r \in Runs :
          \/ DeviceFrame(r)
          \/ CaptureStart(r)
          \/ CaptureGet(r)
          \/ CapturePut(r)
          \/ CaptureRing(r)
          \/ SegCheck(r)
          \/ SegFrame(r)
          \/ SegPut(r)
          \/ InfCheck(r)
          \/ InfGet(r)
          \/ InfLock(r)
          \/ InfReturn(r)
          \/ InfRaise(r)
          \/ InfSink(r)
          \/ InfSinkRaise(r)
          \/ InfPublish(r)
          \/ ParCheck(r)
          \/ ParTick(r)
          \/ ParTry(r)
          \/ ParReturn(r)
          \/ ParRaise(r)
          \/ CadenceElapses(r)

LiveFairness ==
    \A r \in Runs : /\ WF_vars(ParReturn(r) \/ ParRaise(r))
                    /\ SF_vars(InfLock(r))

LiveSpec == Init /\ [][LiveNext]_vars /\ LiveFairness

\* ------------------------------------------------------------ stand-alone Segmenter
SegInit ==
    /\ \E fm \in FrameMsChoices, hm \in HangoverMsChoices, pm \in PrerollMsChoices :
          /\ hangover_frames = SegmenterHangover(fm, hm)
          /\ preroll_frames = SegmenterPreroll(fm, pm)
    /\ inp = <<>>
    /\ mon = GenInit
    /\ mon_out = <<>>
    /\ mon_yields = 0
    /\ sgs = GenInit
    /\ sgs_out = <<>>
    /\ PipeInit

\* The frame source hands the next frame to monitor() and to segments().
Feed ==
    /\ Len(inp) < MaxInput
    /\ \E k \in FrameKinds :
          LET f == [id |-> Len(inp) + 1, kind |-> k]
              m == MonitorStep(mon, f, hangover_frames, preroll_frames)
              s == SegmentsStep(sgs, f, hangover_frames, preroll_frames)
          IN /\ inp' = Append(inp, f)
             /\ mon' = m.st
             /\ mon_out' = IF m.out.some THEN Append(mon_out, m.out.seg) ELSE mon_out
             /\ mon_yields' = mon_yields + 1
             /\ sgs' = s.st
             /\ sgs_out' = IF s.out.some THEN Append(sgs_out, s.out.seg) ELSE sgs_out
    /\ UNCHANGED <<cfgVars, pipeVars>>

SegNext == Feed

SegSpec == SegInit /\ [][SegNext]_vars

\* ------------------------------------------------------------ claims: Segmenter
H == hangover_frames
PF == preroll_frames

NonSpeechRun(i, j) == \A x \in i..j : ~IsSpeech(inp[x])
SpeechRun(i, j) == \A x \in i..j : IsSpeech(inp[x])

\* The input so far is p non-speech frames, n speech frames, z non-speech frames.
IsBurst(p, n, z) ==
    /\ Len(inp) = p + n + z
    /\ NonSpeechRun(1, p)
    /\ SpeechRun(p + 1, p + n)
    /\ NonSpeechRun(p + n + 1, p + n + z)

\* The input so far is p non-speech, a speech, k non-speech, b speech and
\* z non-speech frames.
IsTwoBursts(p, a, k, b, z) ==
    /\ Len(inp) = p + a + k + b + z
    /\ NonSpeechRun(1, p)
    /\ SpeechRun(p + 1, p + a)
    /\ NonSpeechRun(p + a + 1, p + a + k)
    /\ SpeechRun(p + a + k + 1, p + a + k + b)
    /\ NonSpeechRun(p + a + k + b + 1, p + a + k + b + z)

\* The segment that starts with the preroll of an onset after p leading
\* non-speech frames and ends at input frame last.
Utterance(p, last) == SubSeq(inp, p - Min(PF, p) + 1, last)

\* C4: neither monitor() nor segments() ever emits a segment of zero frames.
C4_NoEmptySegment ==
    /\ \A i \in 1..Len(mon_out) : Len(mon_out[i]) >= 1
    /\ \A i \in 1..Len(sgs_out) : Len(sgs_out[i]) >= 1

C4_Witness == Len(mon_out) >= 2 /\ Len(sgs_out) >= 2

\* C5 as stated: after N >= 1 speech frames and hangover_frames non-speech
\* frames exactly one segment has been emitted, holding the preroll, the N
\* speech frames and the hangover frames in input order.
C5_EmittedAfterHangover ==
    \A p \in 0..Len(inp), n \in 1..Len(inp) :
        IsBurst(p, n, H) => mon_out = <<Utterance(p, p + n + H)>>

\* C5 amended: the segment is emitted by the non-speech frame that follows the
\* hangover_frames trailing frames (hangover_frames + 1 non-speech frames in
\* all); until then nothing is emitted, and afterwards exactly that one
\* segment has been.
C5_EmittedAfterHangoverPlusOne ==
    \A p \in 0..Len(inp) : \A n \in 1..(Len(inp) - p) :
        LET z == Len(inp) - p - n
        IN IsBurst(p, n, z) =>
               mon_out = IF z <= H THEN <<>> ELSE <<Utterance(p, p + n + H)>>

C5_Witness ==
    \E p \in 1..MaxInput, n \in 2..MaxInput :
        /\ IsBurst(p, n, H + 1)
        /\ p > PF
        /\ PF >= 1
        /\ Len(mon_out) = 1

\* C6: a pause of fewer than hangover_frames non-speech frames between two
\* speech bursts does not end the segment: nothing is emitted until the
\* non-speech frame after the trailing hangover, and then one segment covers
\* the preroll, both bursts, the pause and the hangover frames.
C6_NoFragmentation ==
    \A p \in 0..Len(inp) : \A a \in 1..(Len(inp) - p) :
        \A k \in 1..Min(H - 1, Len(inp) - p - a) :
            \A b \in 1..(Len(inp) - p - a - k) :
                LET z == Len(inp) - p - a - k - b
                IN IsTwoBursts(p, a, k, b, z) =>
                       mon_out = IF z <= H THEN <<>>
                                 ELSE <<Utterance(p, p + a + k + b + H)>>

C6_Witness ==
    \E p \in 1..MaxInput, a \in 1..MaxInput, k \in 1..MaxInput, b \in 1..MaxInput :
        /\ k < H
        /\ IsTwoBursts(p, a, k, b, H + 1)
        /\ Len(mon_out) = 1

\* The frames that arrived in Silence since the last finalization (or the
\* start): they run from the frame after the one that finalized the last
\* emitted segment up to the next onset.
QuietStart == IF mon_out = <<>> THEN 1
              ELSE mon_out[Len(mon_out)][Len(mon_out[Len(mon_out)])].id + 2
QuietEnd ==
    IF \E i \in QuietStart..Len(inp) : IsSpeech(inp[i])
    THEN (CHOOSE i \in QuietStart..Len(inp) :
             /\ IsSpeech(inp[i])
             /\ \A j \in QuietStart..(i - 1) : ~IsSpeech(inp[j])) - 1
    ELSE Len(inp)
Quiet == SubSeq(inp, QuietStart, QuietEnd)

\* C7: the preroll ring never holds more than preroll_frames frames, it holds
\* the most recent of the non-speech frames received in Silence, in arrival
\* order, and a frame arriving with the ring full evicts the oldest one.
C7_PrerollBoundedFifo ==
    /\ [](/\ Len(mon.pre) <= PF
          /\ mon.pre = LastN(Quiet, PF))
    /\ [][(inp' # inp /\ ~mon.active /\ ~IsSpeech(inp'[Len(inp')])
             /\ PF > 0 /\ Len(mon.pre) = PF)
          => mon'.pre = Append(Tail(mon.pre), inp'[Len(inp')])]_vars

C7_Witness ==
    /\ PF >= 2
    /\ ~mon.active
    /\ Len(mon.pre) = PF
    /\ mon_out # <<>>
    /\ mon.pre[1].id > QuietStart

PreKeptUntilFinalize(g, gn) ==
    /\ (~g.active /\ gn.active) => (gn.pre = g.pre /\ gn.cur = Append(g.pre, inp'[Len(inp')]))
    /\ (g.active /\ gn.active) => gn.pre = g.pre
    /\ (g.active /\ ~gn.active) => gn.pre = <<>>

FinalIn(r) == inf_pc[r] = "transcribing"
PartialIn(r) == par_pc[r] = "transcribing"

\* C1: within one run the final stage and the partial stage are never inside
\* engine.transcribe at the same time.
C1_PartialFinalExclusive == \A r \in Runs : ~(FinalIn(r) /\ PartialIn(r))

C1_Witness ==
    \E r \in Runs : FinalIn(r) /\ par_pc[r] = "try" /\ engine_lock[r] = "final"

\* C2: at most one engine.transcribe call is executing in the whole process,
\* whatever start()/stop()/toggle() calls were made.
C2_OneTranscribeInProcess ==
    Cardinality({r \in Runs : FinalIn(r)}) + Cardinality({r \in Runs : PartialIn(r)}) <= 1

\* A segment on its way to the engine: held by a segmentation stage for the
\* enqueue, queued on the segment channel, or held by a final stage that is
\* acquiring the engine lock.
Queued(s) == \E i \in 1..Len(segments) : segments[i] = s
HeldForFinal(s) == \E r \in Runs : inf_pc[r] = "lock" /\ inf_seg[r] = s
HeldForPut(s) == \E r \in Runs : seg_pc[r] = "put" /\ seg_seg[r] = s

\* C3 as stated: every segment a Segmenter completed in a running pipeline is
\* passed to engine.transcribe; until then it is still on its way there.
C3_CompletedSegmentReachesEngine ==
    \A s \in completed : s \in transcribed \/ HeldForPut(s) \/ Queued(s) \/ HeldForFinal(s)

\* C3 amended: every segment the segment channel accepted stays queued until a
\* final stage dequeues it, and a final stage that dequeued a segment passes
\* it to engine.transcribe (it waits for the engine lock, also when a partial
\* attempt holds it); only a segment that found the channel full is lost.
C3_AcceptedSegmentReachesEngine ==
    \A s \in accepted : s \in transcribed \/ Queued(s) \/ HeldForFinal(s)

C3_Witness ==
    \E r \in Runs :
        /\ inf_pc[r] = "lock"
        /\ inf_seg[r] \in accepted
        /\ engine_lock[r] = "partial"
        /\ PartialIn(r)

\* The step in which a producer's enqueue returns: on a full channel the
\* queue is unchanged and the item is lost, otherwise the item is at the tail;
\* either way the producer moves on.
C9_FramePut(r) ==
    (cap_pc[r] = "put" /\ cap_pc'[r] # "put") =>
        /\ cap_pc'[r] = "ring"
        /\ frame_queue'[r] = IF Len(frame_queue[r]) >= FrameQueueMax
                             THEN frame_queue[r]
                             ELSE Append(frame_queue[r], cap_pcm[r])
        /\ cap_pcm[r].id \in frame_drops' <=> Len(frame_queue[r]) >= FrameQueueMax

C9_SegmentPut(r) ==
    (seg_pc[r] = "put" /\ seg_pc'[r] # "put") =>
        /\ seg_pc'[r] \in {"get", "done"}
        /\ segments' = IF Len(segments) >= SegmentsMax
                       THEN segments
                       ELSE Append(segments, seg_seg[r])
        /\ seg_seg[r] \in accepted' <=> Len(segments) < SegmentsMax

\* C9: a channel never holds more than its capacity; an enqueue on a full
\* channel leaves the queued items as they were, drops the arriving item and
\* lets the producer go on; an enqueue with room appends the item at the tail.
C9_DropNewestOnFull ==
    /\ [](/\ \A r \in Runs : Len(frame_queue[r]) <= FrameQueueMax
          /\ Len(segments) <= SegmentsMax)
    /\ [][\A r \in Runs : C9_FramePut(r) /\ C9_SegmentPut(r)]_vars

C9_Witness ==
    /\ frame_drops # {}
    /\ \E s \in completed : s \notin accepted /\ ~HeldForPut(s)
    /\ \E r \in Runs : cap_pc[r] = "get" /\ seg_pc[r] = "get"

\* C10: a start() that follows a stop() leaves every status field at its
\* default, in the display and in the pipeline's own _vad_active / _level_db.
C10_StatusResetByRestart ==
    [][(~active /\ active' /\ run >= 1) =>
          /\ tui'.vad_active = FALSE
          /\ tui'.partial_text = <<>>
          /\ tui'.last_text = <<>>
          /\ tui'.last_latency_ms = "None"
          /\ tui'.level_db = TUIState.level_db
          /\ vad_active' = FALSE
          /\ level_db' = -120]_vars

\* The step in which the partial stage's acquire returns: with the lock held
\* by anyone, the lock is untouched, nothing is kept for later and the stage
\* is back at its sleep (or has seen the stop signal); with the lock free the
\* stage holds it and is inside engine.transcribe.
C11_PartialTry(r) ==
    (par_pc[r] = "try" /\ par_pc'[r] # "try") =>
        IF engine_lock[r] # "free"
        THEN /\ engine_lock' = engine_lock
             /\ par_pc'[r] \in {"tick", "done"}
             /\ par_audio'[r] = <<>>
        ELSE /\ engine_lock'[r] = "partial"
             /\ par_pc'[r] = "transcribing"

\* C11: the partial stage makes one non-blocking attempt per tick: the attempt
\* can always return at once, a held lock means no transcription and no
\* request left behind for that tick, and the stage is inside
\* engine.transcribe only while it holds the lock.
C11_SingleNonBlockingAttempt ==
    /\ [](\A r \in Runs : /\ par_pc[r] = "try" => ENABLED ParTry(r)
                          /\ PartialIn(r) => engine_lock[r] = "partial")
    /\ [][\A r \in Runs : C11_PartialTry(r)]_vars

C11_Witness ==
    \E r \in Runs :
        /\ <<"skip", r>> \in events
        /\ par_pc[r] = "tick"
        /\ par_audio[r] = <<>>
        /\ FinalIn(r)

\* C12: a final stage that has dequeued a segment and waits for the engine
\* lock eventually holds the lock and is inside engine.transcribe with that
\* segment; the wait ends in no other way.
C12_FinalNotStarved ==
    /\ \A r \in Runs : (inf_pc[r] = "lock") ~> FinalIn(r)
    /\ [][\A r \in Runs :
             (inf_pc[r] = "lock" /\ inf_pc'[r] # "lock") =>
                 /\ FinalIn(r)'
                 /\ inf_seg'[r] = inf_seg[r]
                 /\ transcribed_seq' = Append(transcribed_seq, inf_seg[r])]_vars

C12_Witness ==
    \E r \in Runs : <<"wait", r>> \in events /\ FinalIn(r) /\ par_pc[r] # "transcribing"

\* C13: no state has a final stage holding a dequeued segment and blocked on
\* the engine lock while the partial stage of its run holds that lock.
C13_FinalNeverBlockedByPartial ==
    \A r \in Runs : ~(inf_pc[r] = "lock" /\ inf_seg[r] # NoSegment
                      /\ engine_lock[r] = "partial" /\ PartialIn(r))

\* C14: a start() call that finds the pipeline running changes nothing: no
\* thread is spawned, no component is built, the stop signal is not cleared.
C14_StartIdempotentWhileRunning ==
    [][noop_starts' # noop_starts =>
          /\ active /\ active'
          /\ UNCHANGED <<cfgVars, segVars, objVars, runVars, pcVars, histVars, events,
                         consumed_seq, completed_seq, transcribed_seq, delivered_seq>>]_vars

C14_Witness ==
    /\ noop_starts >= 1
    /\ active
    /\ stop_evt
    /\ \E r \in threads : ~Ended(seg_pc[r]) /\ ~Ended(inf_pc[r])

StagesEnded(r) ==
    Ended(cap_pc[r]) /\ Ended(seg_pc[r]) /\ Ended(inf_pc[r]) /\ Ended(par_pc[r])

\* C15: once stop() has set the stop signal, the four stages of the run
\* eventually have all exited and its audio stream is closed.
C15_StagesExitAfterStop ==
    \A r \in Runs :
        (stop_evt /\ run = r) ~> (StagesEnded(r) /\ ~capture[r].stream)

\* The position of x in a sequence without repetitions (0 if absent).
Pos(seq, x) == IF \E i \in 1..Len(seq) : seq[i] = x
               THEN CHOOSE i \in 1..Len(seq) : seq[i] = x
               ELSE 0

\* sub lists elements of seq, each once, in the order they have in seq.
IsOrderedSubseq(sub, seq) ==
    /\ \A i \in 1..Len(sub) : Pos(seq, sub[i]) > 0
    /\ \A i, j \in 1..Len(sub) : i < j => Pos(seq, sub[i]) < Pos(seq, sub[j])

\* C16: the frames consumed by segmentation are in the order the frame source
\* produced them (ids count production), and the segments passed to
\* engine.transcribe, and the final texts passed to the sink, are in the order
\* of completion.
C16_NoReordering ==
    /\ \A i, j \in 1..Len(consumed_seq) : i < j => consumed_seq[i] < consumed_seq[j]
    /\ IsOrderedSubseq(transcribed_seq, completed_seq)
    /\ IsOrderedSubseq(delivered_seq, completed_seq)

\* The step in which a final transcribe ends: a non-empty text is in hand for
\* the sink, or the text is empty and the iteration is over, or the call
\* raised; then the step of the sink call: the text is handed over, or the
\* sink raised.  The stop signal changes neither.
C17_FinalCompletes(r) ==
    /\ (FinalIn(r) /\ ~FinalIn(r)') =>
           \/ inf_pc'[r] = "sink" /\ inf_seg'[r] = inf_seg[r]
           \/ inf_pc'[r] \in {"get", "done"} /\ inf_seg'[r] = NoSegment
           \/ inf_pc'[r] = "dead"
    /\ (inf_pc[r] = "sink" /\ inf_pc'[r] # "sink") =>
           \/ inf_pc'[r] = "publish" /\ delivered_seq' = Append(delivered_seq, inf_seg[r])
           \/ inf_pc'[r] = "dead"

\* C17: a final transcribe in flight when stop() is called ends only by its
\* own return or raise, and a non-empty result is handed to
\* sink.handle_final before the stage exits.
C17_InFlightFinalDelivered == [][\A r \in Runs : C17_FinalCompletes(r)]_vars

C17_Witness ==
    \E r \in Runs :
        /\ <<"stop_in_final", r>> \in events
        /\ stop_evt
        /\ inf_pc[r] = "publish"
        /\ \E i \in 1..Len(delivered_seq) : delivered_seq[i] = inf_seg[r]

\* C18: however a final engine.transcribe ends, the sink has not been called
\* for it in that step, the engine lock is free again and the final stage is
\* alive, at its hand-over to the sink, its next dequeue or its regular exit.
C18_EngineFailureSurvived ==
    [][\A r \in Runs :
          (FinalIn(r) /\ ~FinalIn(r)') =>
              /\ delivered_seq' = delivered_seq
              /\ engine_lock'[r] = "free"
              /\ inf_pc'[r] \in {"sink", "get", "done"}]_vars

\* C19: however a sink.handle_final call ends, the final stage is alive
\* afterwards and does not call the sink again for that text.
C19_SinkFailureSurvived ==
    [][\A r \in Runs :
          (inf_pc[r] = "sink" /\ inf_pc'[r] # "sink") =>
              inf_pc'[r] \in {"publish", "get", "done"}]_vars

\* C20: once the capture stage of the current run has died of a device fault,
\* the pipeline eventually is not running, shows recording off, and the
\* other stages of the run have exited.
C20_CaptureFaultStopsPipeline ==
    \A r \in Runs :
        (cap_pc[r] = "dead" /\ run = r) ~> (~active /\ ~tui.recording /\ StagesEnded(r))

\* ------------------------------------------------------------ claims: Segmenter, continued
\* The frame ids of a sequence of frames, and the locals of a generator with
\* its frames reduced to their ids.
Ids(fs) == [i \in 1..Len(fs) |-> fs[i].id]
Shape(g) == [active |-> g.active, hang |-> g.hang, pre |-> Ids(g.pre), cur |-> Ids(g.cur)]

\* The frame fed in this step, and the same frame with samples the classifier
\* calls not speech.
Fed == inp'[Len(inp')]
AsSilence(f) == [f EXCEPT !.kind = "silence"]

\* C21: a frame on which the classifier raises takes monitor() and segments()
\* through exactly the transition of a non-speech frame, yields its tuple,
\* and the next frame is accepted.
C21_FaultIsSilence ==
    /\ [][(inp' # inp /\ Fed.kind = "fault") =>
             LET m == MonitorStep(mon, AsSilence(Fed), H, PF)
                 g == SegmentsStep(sgs, AsSilence(Fed), H, PF)
             IN /\ Shape(mon') = Shape(m.st)
                /\ Shape(sgs') = Shape(g.st)
                /\ Len(mon_out') = Len(mon_out) + (IF m.out.some THEN 1 ELSE 0)
                /\ m.out.some => Ids(mon_out'[Len(mon_out')]) = Ids(m.out.seg)
                /\ Len(sgs_out') = Len(sgs_out) + (IF g.out.some THEN 1 ELSE 0)
                /\ mon_yields' = mon_yields + 1]_vars
    /\ []((Len(inp) < MaxInput) => ENABLED Feed)

C21_Witness ==
    /\ Len(inp) >= 4
    /\ \A i \in 1..Len(inp) : inp[i].kind \in {"speech", "fault"}
    /\ inp[1].kind = "fault"
    /\ inp[Len(inp)].kind = "fault"
    /\ PF >= 1
    /\ Len(mon_out) = 1
    /\ mon_out[1][1].kind = "fault"
    /\ ~mon.active

\* ------------------------------------------------------------ claims: Pipeline, continued
\* C22: a tick of the partial stage that finds VAD inactive, and a tick whose
\* single attempt at the engine lock fails, both leave partial_text empty
\* and the stage outside engine.transcribe.
C22_SkippedTickClearsPartial ==
    [][\A r \in Runs :
          /\ (ParTick(r) /\ enable_partials /\ ~vad_active) =>
                 /\ tui'.partial_text = <<>>
                 /\ par_pc'[r] \in {"tick", "done"}
          /\ (ParTry(r) /\ engine_lock[r] # "free") =>
                 /\ tui'.partial_text = <<>>
                 /\ par_pc'[r] \in {"tick", "done"}]_vars

\* The step in which the device callback ran on the open stream of run r:
\* a full mailbox is as it was and the arriving frame is lost, otherwise the
\* arriving frame is at the tail behind the frames already buffered.
C23_Callback(r) ==
    LET q == capture[r].queue
        qn == capture'[r].queue
    IN IF Len(q) >= MailboxMax
       THEN qn = q
       ELSE /\ Len(qn) = Len(q) + 1
            /\ SubSeq(qn, 1, Len(q)) = q
            /\ qn[Len(qn)].id = nframes + 1

\* C23: the mailbox never holds more than its capacity; a frame arriving on
\* a full mailbox is dropped and the buffered frames stay as they are; the
\* callback can always run to its end, full mailbox or not.
C23_MailboxDropsNewest ==
    /\ [](\A r \in Runs :
              /\ Len(capture[r].queue) <= MailboxMax
              /\ (capture[r].stream /\ nframes < MaxBoxFrames) => ENABLED DeviceFrameBox(r))
    /\ [][nframes' # nframes => C23_Callback(run)]_vars

C23_Witness ==
    \E r \in Runs :
        /\ capture[r].stream
        /\ Len(capture[r].queue) = MailboxMax
        /\ capture[r].queue[MailboxMax].id + 2 <= nframes
        /\ cap_pc[r] = "ring"

\* ------------------------------------------------------------ claims: Segmenter, emission
IdSet(fs) == {fs[i].id : i \in 1..Len(fs)}

\* No frame is in two of the segments of outs.
Disjoint(outs) ==
    \A i, j \in 1..Len(outs) : i # j => IdSet(outs[i]) \cap IdSet(outs[j]) = {}

\* The step that emits a segment leaves none of its frames in the segment
\* buffer (nor in the preroll ring).
NothingRetained(outs, outsn, gn) ==
    Len(outsn) > Len(outs) =>
        /\ gn.cur = <<>>
        /\ IdSet(gn.pre) \cap IdSet(outsn[Len(outsn)]) = {}

\* C24: no input frame is in more than one emitted segment, and when
\* monitor() yields a segment its buffers hold none of the emitted frames.
\* (segments() yields before it clears, so its buffer is compared at the
\* next frame, where the generator is resumed.)
C24_EmittedExactlyOnce ==
    /\ [](Disjoint(mon_out) /\ Disjoint(sgs_out))
    /\ [][NothingRetained(mon_out, mon_out', mon')]_vars

C24_Witness ==
    /\ Len(mon_out) = 2
    /\ Len(sgs_out) = 2
    /\ PF >= 1
    /\ ~IsSpeech(mon_out[1][1])
    /\ mon.cur = <<>>
    /\ Len(inp) = mon_out[2][Len(mon_out[2])].id + 1

\* The step of a non-speech frame in Trailing with the hangover counter at 0:
\* the accumulated segment is emitted without that frame, and the generator
\* is in Silence with both buffers empty.
C25_Finalize(g, gn, outs, outsn) ==
    (inp' # inp /\ g.active /\ g.hang = 0 /\ ~IsSpeech(Fed)) =>
        /\ g.cur # <<>>
        /\ outsn = Append(outs, g.cur)
        /\ Fed.id \notin IdSet(g.cur)
        /\ ~gn.active
        /\ gn.cur = <<>>
        /\ gn.pre = <<>>

\* The frames that finalized the segments of outs: each is the input frame
\* right after the last frame of its segment.
Triggers(outs) == {outs[i][Len(outs[i])].id + 1 : i \in 1..Len(outs)}

\* C25: finalization emits the accumulated segment and leaves Silence with
\* the segment buffer and the preroll ring empty; the frame that triggered
\* it is in no emitted segment and in neither buffer, then or later.
C25_FinalizeDropsTrigger ==
    /\ [][/\ C25_Finalize(mon, mon', mon_out, mon_out')
          /\ C25_Finalize(sgs, sgs', sgs_out, sgs_out')]_vars
    /\ [](\A t \in Triggers(mon_out) :
              /\ t \notin IdSet(mon.cur) \cup IdSet(mon.pre)
              /\ \A i \in 1..Len(mon_out) : t \notin IdSet(mon_out[i]))
    /\ [](\A t \in Triggers(sgs_out) :
              /\ t \notin IdSet(sgs.cur) \cup IdSet(sgs.pre)
              /\ \A i \in 1..Len(sgs_out) : t \notin IdSet(sgs_out[i]))

C25_Witness ==
    /\ Len(mon_out) = 2
    /\ PF >= 2
    /\ ~IsSpeech(mon_out[2][1])
    /\ mon_out[2][1].id = mon_out[1][Len(mon_out[1])].id + 2
    /\ IsSpeech(mon_out[2][2])

\* C29: segments() has yielded exactly the segments monitor() has yielded in
\* place of None, in the same order, and monitor() has yielded one tuple per
\* input frame.
C29_SegmentsMatchesMonitor ==
    /\ sgs_out = mon_out
    /\ mon_yields = Len(inp)

C29_Witness ==
    /\ Len(sgs_out) >= 1
    /\ ~IsSpeech(sgs_out[1][1])
    /\ sgs.active
    /\ sgs.hang < H
    /\ mon_yields >= 6

\* seg is a run of consecutive input frames in input order.
Contiguous(seg) ==
    /\ seg # <<>>
    /\ seg[1].id >= 1
    /\ seg[Len(seg)].id <= Len(inp)
    /\ seg = SubSeq(inp, seg[1].id, seg[Len(seg)].id)

\* The number of frames of seg before its first speech frame.
HeadLen(seg) ==
    IF \E i \in 1..Len(seg) : IsSpeech(seg[i])
    THEN (CHOOSE i \in 1..Len(seg) :
              IsSpeech(seg[i]) /\ \A j \in 1..(i - 1) : ~IsSpeech(seg[j])) - 1
    ELSE Len(seg)

\* seg holds a speech frame, and before its first one only the non-speech
\* frames kept as preroll, at most preroll_frames of them.
WellFormed(seg) ==
    /\ Contiguous(seg)
    /\ HeadLen(seg) < Len(seg)
    /\ HeadLen(seg) <= PF

\* C30: every emitted segment is a run of consecutive input frames in their
\* original order (no gap, no repetition, no reordering) that begins with at
\* most preroll_frames non-speech frames directly before its first speech
\* frame.
C30_SegmentIsContiguousRun ==
    /\ \A i \in 1..Len(mon_out) : WellFormed(mon_out[i])
    /\ \A i \in 1..Len(sgs_out) : WellFormed(sgs_out[i])

C30_Witness ==
    \E i \in 1..Len(mon_out) :
        /\ HeadLen(mon_out[i]) = 2
        /\ Len(mon_out[i]) >= 6
        /\ \E a, b, c \in 1..Len(mon_out[i]) :
               /\ a < b /\ b < c
               /\ IsSpeech(mon_out[i][a])
               /\ ~IsSpeech(mon_out[i][b])
               /\ IsSpeech(mon_out[i][c])

\* The steps that lead the partial stage of run r into engine.transcribe:
\* the tick that keeps the rolling window for a transcription, and the
\* acquire that succeeds.
C26_PartialEntry(r) ==
    /\ (par_pc[r] # "try" /\ par_pc'[r] = "try") =>
           /\ par_pc[r] = "tick"
           /\ enable_partials
           /\ vad_active
           /\ Len(partial_ring[r]) >= MinPartialFrames
           /\ par_audio'[r] = partial_ring[r]
    /\ (~PartialIn(r) /\ PartialIn(r)') =>
           /\ par_pc[r] = "try"
           /\ engine_lock[r] = "free"
           /\ par_audio'[r] = par_audio[r]

C27_AfterTranscribe(r) ==
    /\ (FinalIn(r) /\ inf_pc'[r] \in {"get", "done"}) =>
           UNCHANGED <<delivered_seq, partial_ring, tui>>
    /\ (FinalIn(r) /\ inf_pc'[r] = "sink") =>
           UNCHANGED <<delivered_seq, partial_ring, tui>>
    /\ (inf_pc[r] = "sink" /\ inf_pc'[r] # "sink") =>
           /\ delivered_seq' = Append(delivered_seq, inf_seg[r])
           /\ inf_pc'[r] = "publish"
           /\ inf_seg'[r] = inf_seg[r]
    /\ (inf_pc[r] = "publish" /\ inf_pc'[r] # "publish") =>
           /\ partial_ring'[r] = <<>>
           /\ tui'.partial_text = <<>>
           /\ tui'.last_text = inf_seg[r]
           /\ delivered_seq' = delivered_seq

\* C27: per transcribed segment the sink is called once for a non-empty
\* text and not at all for an empty one; a non-empty text is followed by the
\* emptied window and the status update, an empty one changes neither.
C27_FinalResultHandling ==
    /\ [][\A r \in Runs : C27_AfterTranscribe(r)]_vars
    /\ [](\A i, j \in 1..Len(delivered_seq) : i # j => delivered_seq[i] # delivered_seq[j])

\* C28: a published partial never holds audio of the utterance whose final
\* is the last one published: from the final's status update on,
\* partial_text shares no frame with last_text.
C28_NoStalePartialAfterFinal ==
    IdSet(tui.partial_text) \cap IdSet(tui.last_text) = {}

\* C31: the engine lock of a run is held exactly while one of the run's
\* stages is inside engine.transcribe, by that stage; the step in which a
\* transcribe call returns or raises frees it; and a final stage waiting in
\* its acquire while no call is executing can take the lock.
C31_LockHeldOnlyInTranscribe ==
    /\ [](\A r \in Runs :
              /\ engine_lock[r] = "final" <=> FinalIn(r)
              /\ engine_lock[r] = "partial" <=> PartialIn(r)
              /\ (Ended(inf_pc[r]) /\ Ended(par_pc[r])) => engine_lock[r] = "free"
              /\ (inf_pc[r] = "lock" /\ ~PartialIn(r)) => ENABLED InfLock(r))
    /\ [][\A r \in Runs :
             ((FinalIn(r) /\ ~FinalIn(r)') \/ (PartialIn(r) /\ ~PartialIn(r)')) =>
                 engine_lock'[r] = "free"]_vars

C31_Witness ==
    \E r \in Runs :
        /\ par_pc[r] = "dead"
        /\ FinalIn(r)
        /\ engine_lock[r] = "final"
        /\ <<"wait", r>> \in events

\* ------------------------------------------------------------ claims: stop() and restart
\* s was waiting on the segment channel when stop() was called.
WasQueuedAtStop(s) == s # <<>> /\ <<"queued_at_stop", s[1].id>> \in events

\* C32 as stated: a segment queued when stop() is called is dequeued only by
\* the final stage of the next start(), with the stop signal clear again, and
\* that stage's transcribe call ends with the text handed to the sink.
C32_QueuedSegmentHandledByNextStart ==
    [][\A r \in Runs :
          /\ (inf_pc[r] = "get" /\ inf_pc'[r] = "lock" /\ WasQueuedAtStop(Head(segments))) =>
                 (~stop_evt /\ r = run)
          /\ (FinalIn(r) /\ ~FinalIn(r)' /\ WasQueuedAtStop(inf_seg[r])) =>
                 inf_pc'[r] = "sink"
          /\ (inf_pc[r] = "sink" /\ inf_pc'[r] # "sink" /\ WasQueuedAtStop(inf_seg[r])) =>
                 delivered_seq' = Append(delivered_seq, inf_seg[r])]_vars

\* The only steps that change the segment channel: a segmentation stage's
\* enqueue at the tail and a final stage's dequeue at the head.
C32_ChannelStep ==
    segments' # segments =>
        \E r \in Runs :
            \/ seg_pc[r] = "put" /\ segments' = Append(segments, seg_seg[r])
            \/ /\ inf_pc[r] = "get"
               /\ inf_pc'[r] = "lock"
               /\ segments # <<>>
               /\ inf_seg'[r] = Head(segments)
               /\ segments' = Tail(segments)

\* C32 amended: start() and stop() leave the segment channel as it is, so a
\* segment queued when stop() is called stays queued until some final stage
\* dequeues it, and the stage that dequeued it passes it to
\* engine.transcribe.
C32_ChannelSurvivesStopAndStart ==
    /\ [][/\ (stop_evt' # stop_evt \/ active' # active \/ run' # run \/ ctl' # ctl) =>
                 segments' = segments
          /\ C32_ChannelStep]_vars
    /\ [](\A s \in accepted :
              WasQueuedAtStop(s) => s \in transcribed \/ Queued(s) \/ HeldForFinal(s))

C32_Witness ==
    /\ run = 2
    /\ inf_pc[1] = "done"
    /\ inf_pc[2] = "publish"
    /\ WasQueuedAtStop(inf_seg[2])
    /\ \E i \in 1..Len(delivered_seq) : delivered_seq[i] = inf_seg[2]

\* s holds a frame that a Segmenter had accumulated for a segment in
\* progress when stop() was called.
HoldsInProgressFrame(s) ==
    \E i \in 1..Len(s) : <<"in_progress_at_stop", s[i].id>> \in events

\* C33: the frames of a segment in progress when stop() is signalled never
\* leave the segmentation stage as a segment: no segment holding one of them
\* is put on the segment channel, waits there, is held by a final stage,
\* reaches engine.transcribe or is handed to the sink, in that run or after a
\* later start(); and a later start() begins with an empty Segmenter.
C33_InProgressSegmentDiscarded ==
    /\ [](/\ \A s \in accepted \cup transcribed \cup delivered : ~HoldsInProgressFrame(s)
          /\ \A i \in 1..Len(segments) : ~HoldsInProgressFrame(segments[i])
          /\ \A r \in Runs : /\ ~HoldsInProgressFrame(inf_seg[r])
                              /\ seg_pc[r] = "put" => ~HoldsInProgressFrame(seg_seg[r]))
    /\ [][run' # run => (sgm'[run'] = GenInit /\ frame_queue'[run'] = <<>>)]_vars

C33_Witness ==
    /\ run = 2
    /\ \E s \in completed : HoldsInProgressFrame(s) /\ s \notin accepted
    /\ seg_pc[1] = "done"
    /\ \E i \in 1..Len(delivered_seq) : ~HoldsInProgressFrame(delivered_seq[i])

====
